---- MODULE Spec2Model ----
(***************************************************************************)
(* Endpoint auto-registration of the survey backend: the naming helper     *)
(* camel_to_snake (server/utils.py), the registering metaclass             *)
(* ProjectViewMeta (server/drf.py) and the startup sequence of             *)
(* server/urls.py.                                                         *)
(*                                                                         *)
(* Strings are sequences of one-character strings, so that the regular     *)
(* expressions, the suffix test and the lowercasing are computed character *)
(* by character.  A dotted module path is a sequence of its components.    *)
(***************************************************************************)
EXTENDS Naturals, Sequences, FiniteSets

VARIABLES
    ident,            \* NameSpec: the identifier handed to the naming helper
    segment,          \* NameSpec: the path segment derived from it, or Pending
    INSTALLED_APPS,   \* settings.INSTALLED_APPS, a sequence of dotted paths
    apps,             \* initialize(): the filtered apps not yet iterated
    pc,               \* position of the startup sequence
    loading,          \* the app whose api sub-unit is being executed, or <<>>
    classes,          \* every class object created so far, by identity
    _apis,            \* ProjectViewMeta._apis, an insertion-ordered dict
    raised,           \* the exception that ended the startup, or "none"
    api_urls,         \* urls.py: api_urls, or NotCalled
    paths,            \* result of the latest get_paths() call
    calls,            \* number of get_paths() calls made
    h                 \* observations of the run, read only by the properties

vars == <<ident, segment, INSTALLED_APPS, apps, pc, loading, classes, _apis,
          raised, api_urls, paths, calls, h>>

-----------------------------------------------------------------------------
(* Bounds *)

MaxIdentLen == 6
NumInstalled == 2
MaxClasses == 2
MaxGetPaths == 2

-----------------------------------------------------------------------------
(* Characters *)

UpperSeq == <<"A","B","C","D","E","F","G","H","I","J","K","L","M",
              "N","O","P","Q","R","S","T","U","V","W","X","Y","Z">>
LowerSeq == <<"a","b","c","d","e","f","g","h","i","j","k","l","m",
              "n","o","p","q","r","s","t","u","v","w","x","y","z">>
DigitSeq == <<"0","1","2","3","4","5","6","7","8","9">>

Range(f) == {f[i] : i \in DOMAIN f}

UpperChars == Range(UpperSeq)
LowerChars == Range(LowerSeq)
DigitChars == Range(DigitSeq)

\* [A-Z]
IsUpper(c) == c \in UpperChars
\* [a-z]
IsLower(c) == c \in LowerChars
\* \d
IsDigit(c) == c \in DigitChars

\* str.lower() on one ASCII character
LowerChar(c) ==
    IF IsUpper(c)
    THEN LowerSeq[CHOOSE i \in DOMAIN UpperSeq : UpperSeq[i] = c]
    ELSE c

\* str.lower()
lower(s) == [i \in DOMAIN s |-> LowerChar(s[i])]

-----------------------------------------------------------------------------
(* server/utils.py *)

\* Greedy [a-z]+ : the last index of the run of lowercase letters that
\* contains index j.
RECURSIVE LowerRunEnd(_, _)
LowerRunEnd(s, j) ==
    IF j + 1 <= Len(s) /\ IsLower(s[j + 1]) THEN LowerRunEnd(s, j + 1) ELSE j

\* re.sub(r"(.)([A-Z][a-z]+)", r"\1_\2", s), scanning from index i:
\* leftmost, non-overlapping matches; unmatched characters are copied.
RECURSIVE sub_word(_, _)
sub_word(s, i) ==
    IF i > Len(s) THEN <<>>
    ELSE IF i + 2 <= Len(s) /\ IsUpper(s[i + 1]) /\ IsLower(s[i + 2])
         THEN LET j == LowerRunEnd(s, i + 2)
              IN  <<s[i], "_">> \o SubSeq(s, i + 1, j) \o sub_word(s, j + 1)
         ELSE <<s[i]>> \o sub_word(s, i + 1)

\* re.sub(r"([a-z\d])([A-Z])", r"\1_\2", s), scanning from index i.
RECURSIVE sub_hump(_, _)
sub_hump(s, i) ==
    IF i > Len(s) THEN <<>>
    ELSE IF i + 1 <= Len(s) /\ (IsLower(s[i]) \/ IsDigit(s[i]))
                            /\ IsUpper(s[i + 1])
         THEN <<s[i], "_", s[i + 1]>> \o sub_hump(s, i + 2)
         ELSE <<s[i]>> \o sub_hump(s, i + 1)

\* camel_to_snake without its second substitution
camel_to_snake_one_pass(name) == lower(sub_word(name, 1))

camel_to_snake(name) == lower(sub_hump(sub_word(name, 1), 1))

\* str.removesuffix(suffix)
removesuffix(s, suffix) ==
    IF Len(suffix) > 0 /\ Len(s) >= Len(suffix)
       /\ SubSeq(s, Len(s) - Len(suffix) + 1, Len(s)) = suffix
    THEN SubSeq(s, 1, Len(s) - Len(suffix))
    ELSE s

ViewSuffix == <<"V","i","e","w">>

\* drf.py line 34, right operand of `or`
DeriveName(name) == camel_to_snake(removesuffix(name, ViewSuffix))

-----------------------------------------------------------------------------
(* Values *)

LoginView == <<"L","o","g","i","n","V","i","e","w">>
Login == <<"L","o","g","i","n">>
View == <<"V","i","e","w">>
login == <<"l","o","g","i","n">>

\* Names a class statement of a feature module may carry.
ClassNames == {LoginView, Login, View}

\* The `url` entry of a class body: absent ({}), or present with a value.
ClassBodies == {{}, {<<>>}, {login}}

\* Dotted paths settings.INSTALLED_APPS is drawn from.
AppPool == {<<"django", "contrib", "admin">>, <<"server">>, <<"survey">>}

\* Exceptions a statement of a sub-unit may raise besides the ones the
\* metaclass raises.  ImportError is the parent class of ModuleNotFoundError.
Defects == {"ImportError", "RuntimeError"}

\* The single element of a one-element set.
The(S) == CHOOSE x \in S : TRUE

-----------------------------------------------------------------------------
(* dict, insertion ordered *)

DictHas(d, k) == \E i \in DOMAIN d : d[i].key = k

DictGet(d, k) == d[CHOOSE i \in DOMAIN d : d[i].key = k].val

\* d[k] = v : an existing key keeps its position and takes the new value.
DictSet(d, k, v) ==
    IF DictHas(d, k)
    THEN [i \in DOMAIN d |-> IF d[i].key = k THEN [key |-> k, val |-> v]
                                              ELSE d[i]]
    ELSE Append(d, [key |-> k, val |-> v])

\* d.items()
items(d) == [i \in DOMAIN d |-> <<d[i].key, d[i].val>>]

-----------------------------------------------------------------------------
(* server/drf.py : ProjectViewMeta *)

\* drf.py line 76: the abstract parent of every view; its body only annotates
\* `url`, so the class has no such attribute.
ProjectView ==
    [name |-> <<"P","r","o","j","e","c","t","V","i","e","w">>,
     parent |-> 0, abc |-> TRUE, url |-> {}]

\* drf.py line 34: dct.get("url") or camel_to_snake(name.removesuffix("View"))
\* None and "" are both falsy.
api_name(name, dct) ==
    IF dct # {} /\ The(dct) # <<>> THEN The(dct) ELSE DeriveName(name)

\* ProjectViewMeta.__new__(mcs, name, bases, dct) with bases = (parent,) or
\* (parent, ABC).  The result carries the exception raised, the classes and
\* the registry afterwards, and the key and class object of the registration.
__new__(name, parent, abc, dct) ==
    LET key   == api_name(name, dct)
        dct2  == IF abc THEN dct ELSE {key}
        \* attribute lookup: the class body first, then the parent
        attr  == IF dct2 # {} THEN dct2 ELSE classes[parent].url
        cls   == Len(classes) + 1
    IN  IF ~abc /\ DictHas(_apis, key)
        THEN [raised |-> "ValueError", classes |-> classes, apis |-> _apis,
              url |-> {key}, cls |-> 0]
        ELSE [raised |-> "none",
              classes |-> Append(classes, [name |-> name, parent |-> parent,
                                           abc |-> abc, url |-> attr]),
              apis |-> IF attr # {} THEN DictSet(_apis, The(attr), cls)
                                    ELSE _apis,
              url |-> attr, cls |-> cls]

\* get_paths() that empties the dict while listing it (popitem)
get_paths_popping ==
    /\ paths' = items(_apis)
    /\ _apis' = <<>>

\* ProjectViewMeta.get_paths(): one path per item, in the dict's order.
get_paths ==
    /\ paths' = items(_apis)
    /\ _apis' = _apis

\* drf.py line 66: not app.startswith("django.")
IsProjectApp(app) == ~(Len(app) >= 2 /\ app[1] = "django")

\* filter(lambda, settings.INSTALLED_APPS)
RECURSIVE filter_apps(_)
filter_apps(s) ==
    IF s = <<>> THEN <<>>
    ELSE IF IsProjectApp(Head(s)) THEN <<Head(s)>> \o filter_apps(Tail(s))
         ELSE filter_apps(Tail(s))

\* a try statement that catches nothing
CaughtNothing(e) == FALSE

\* drf.py line 72: except ModuleNotFoundError
Caught(e) == e = "ModuleNotFoundError"

-----------------------------------------------------------------------------
(* Startup sequence: server/urls.py lines 8-9, running initialize() *)

\* What every step records for the properties.
Observe(op) ==
    [h EXCEPT !.lastOp = op, !.apisBefore = _apis, !.appsBefore = apps,
              !.prevPaths = paths]

NoDef ==
    [valid |-> FALSE, name |-> <<>>, dct |-> {}, abc |-> FALSE, parent |-> 0,
     url |-> {}, present |-> FALSE, raised |-> "none", cls |-> 0]

\* drf.py lines 70-73: the try statement around __import__, given what the
\* import raised ("none" when it returned).  An exception that is not caught
\* leaves initialize() and ends the import of server/urls.py.
import_done(e) ==
    IF e = "none" \/ Caught(e)
    THEN /\ pc' = "scan"
         /\ apps' = Tail(apps)
         /\ raised' = raised
    ELSE /\ pc' = "aborted"
         /\ apps' = apps
         /\ raised' = e

\* urls.py line 8, drf.py lines 64-68
StartInitialize ==
    /\ pc = "start"
    /\ apps' = filter_apps(INSTALLED_APPS)
    /\ pc' = "scan"
    /\ h' = Observe("StartInitialize")
    /\ UNCHANGED <<ident, segment, INSTALLED_APPS, loading, classes, _apis,
                   raised, api_urls, paths, calls>>

\* drf.py line 71 for an app without an api sub-unit
ImportAbsent ==
    /\ pc = "scan"
    /\ apps # <<>>
    /\ import_done("ModuleNotFoundError")
    /\ h' = [Observe("ImportAbsent") EXCEPT
                !.scanned = IF pc' = "scan" THEN @ + 1 ELSE @,
                !.skipped = @ + 1]
    /\ UNCHANGED <<ident, segment, INSTALLED_APPS, loading, classes, _apis,
                   api_urls, paths, calls>>

\* drf.py line 71 for an app with an api sub-unit: its body starts executing
ImportBegin ==
    /\ pc = "scan"
    /\ apps # <<>>
    /\ pc' = "load"
    /\ loading' = Head(apps)
    /\ h' = Observe("ImportBegin")
    /\ UNCHANGED <<ident, segment, INSTALLED_APPS, apps, classes, _apis,
                   raised, api_urls, paths, calls>>

\* A class statement in the body of the sub-unit being loaded
ClassStatement(name, parent, abc, dct) ==
    /\ pc = "load"
    /\ Len(classes) <= MaxClasses
    /\ LET r == __new__(name, parent, abc, dct)
           d == [valid |-> TRUE, name |-> name, dct |-> dct, abc |-> abc,
                 parent |-> parent, url |-> r.url,
                 present |-> r.url # {} /\ DictHas(_apis, The(r.url)),
                 raised |-> r.raised, cls |-> r.cls]
       IN  /\ classes' = r.classes
           /\ _apis' = r.apis
           /\ IF r.raised = "none"
              THEN /\ UNCHANGED <<pc, apps, raised, loading>>
                   /\ h' = [Observe("ClassStatement") EXCEPT
                              !.def = d,
                              !.regLog = IF r.url # {}
                                         THEN Append(@, <<The(r.url), r.cls>>)
                                         ELSE @]
              ELSE /\ import_done(r.raised)
                   /\ loading' = <<>>
                   /\ h' = [Observe("ClassStatement") EXCEPT
                              !.def = d,
                              !.scanned = IF pc' = "scan" THEN @ + 1 ELSE @,
                              !.unitRaised = IF @ = "none" THEN r.raised ELSE @,
                              !.apisAtRaise = IF h.unitRaised = "none"
                                              THEN r.apis ELSE @]
    /\ UNCHANGED <<ident, segment, INSTALLED_APPS, api_urls, paths, calls>>

\* A statement in the body of the sub-unit being loaded raises e: an import
\* of a module that does not exist (ModuleNotFoundError), or another defect
StatementRaises(e) ==
    /\ pc = "load"
    /\ import_done(e)
    /\ loading' = <<>>
    /\ h' = [Observe("StatementRaises") EXCEPT
                !.scanned = IF pc' = "scan" THEN @ + 1 ELSE @,
                !.unitRaised = IF @ = "none" THEN e ELSE @,
                !.apisAtRaise = IF h.unitRaised = "none" THEN _apis ELSE @]
    /\ UNCHANGED <<ident, segment, INSTALLED_APPS, classes, _apis, api_urls,
                   paths, calls>>

\* The body of the sub-unit being loaded ends: __import__ returns
ImportEnd ==
    /\ pc = "load"
    /\ import_done("none")
    /\ loading' = <<>>
    /\ h' = [Observe("ImportEnd") EXCEPT
                !.scanned = IF pc' = "scan" THEN @ + 1 ELSE @]
    /\ UNCHANGED <<ident, segment, INSTALLED_APPS, classes, _apis, api_urls,
                   paths, calls>>

\* drf.py line 69: the loop is exhausted, initialize() returns
InitializeReturn ==
    /\ pc = "scan"
    /\ apps = <<>>
    /\ pc' = "initialized"
    /\ h' = Observe("InitializeReturn")
    /\ UNCHANGED <<ident, segment, INSTALLED_APPS, apps, loading, classes,
                   _apis, raised, api_urls, paths, calls>>

\* urls.py with lines 8 and 9 exchanged: the paths are taken before
\* initialize() runs
ApiUrlsBeforeInitialize ==
    /\ pc = "start"
    /\ api_urls = {}
    /\ get_paths
    /\ api_urls' = {paths'}
    /\ calls' = calls + 1
    /\ h' = Observe("ApiUrls")
    /\ UNCHANGED <<ident, segment, INSTALLED_APPS, apps, pc, loading, classes,
                   raised>>

\* urls.py line 9: api_urls = ProjectViewMeta.get_paths()
ApiUrls ==
    /\ pc = "initialized"
    /\ get_paths
    /\ api_urls' = {paths'}
    /\ calls' = calls + 1
    /\ pc' = "serving"
    /\ h' = Observe("ApiUrls")
    /\ UNCHANGED <<ident, segment, INSTALLED_APPS, apps, loading, classes,
                   raised>>

\* A later call of ProjectViewMeta.get_paths()
GetPathsAgain ==
    /\ pc = "serving"
    /\ calls < MaxGetPaths
    /\ get_paths
    /\ calls' = calls + 1
    /\ h' = Observe("GetPathsAgain")
    /\ UNCHANGED <<ident, segment, INSTALLED_APPS, apps, pc, loading, classes,
                   raised, api_urls>>

\* settings.INSTALLED_APPS: Django refuses a list that names an app twice
InstalledChoices ==
    {s \in [1..NumInstalled -> AppPool] :
        \A i, j \in 1..NumInstalled : s[i] = s[j] => i = j}

Init ==
    /\ ident = <<>>
    /\ segment = {}
    /\ INSTALLED_APPS \in InstalledChoices
    /\ apps = <<>>
    /\ pc = "start"
    /\ loading = <<>>
    /\ classes = <<ProjectView>>
    /\ _apis = <<>>
    /\ raised = "none"
    /\ api_urls = {}
    /\ paths = <<>>
    /\ calls = 0
    /\ h = [lastOp |-> "none", apisBefore |-> <<>>, appsBefore |-> <<>>,
            prevPaths |-> <<>>, scanned |-> 0, skipped |-> 0, regLog |-> <<>>,
            def |-> NoDef, unitRaised |-> "none", apisAtRaise |-> <<>>]

Next ==
    \/ StartInitialize
    \/ ImportAbsent
    \/ ImportBegin
    \/ \E name \in ClassNames, parent \in 1..Len(classes), abc \in BOOLEAN,
          dct \in ClassBodies : ClassStatement(name, parent, abc, dct)
    \/ \E e \in Defects \cup {"ModuleNotFoundError"} : StatementRaises(e)
    \/ ImportEnd
    \/ InitializeReturn
    \/ ApiUrls
    \/ GetPathsAgain

Spec == Init /\ [][Next]_vars

-----------------------------------------------------------------------------
(* The naming helper on its own *)

NameAlphabet == {"V", "i", "e", "w", "A", "1"}

Idents == UNION {[1..n -> NameAlphabet] : n \in 1..MaxIdentLen}

NameInit ==
    /\ ident \in Idents
    /\ segment = {}
    /\ INSTALLED_APPS = <<>>
    /\ apps = <<>>
    /\ pc = "name"
    /\ loading = <<>>
    /\ classes = <<ProjectView>>
    /\ _apis = <<>>
    /\ raised = "none"
    /\ api_urls = {}
    /\ paths = <<>>
    /\ calls = 0
    /\ h = [lastOp |-> "none", apisBefore |-> <<>>, appsBefore |-> <<>>,
            prevPaths |-> <<>>, scanned |-> 0, skipped |-> 0, regLog |-> <<>>,
            def |-> NoDef, unitRaised |-> "none", apisAtRaise |-> <<>>]

\* drf.py line 34 applied to the identifier
Derive ==
    /\ segment = {}
    /\ segment' = {DeriveName(ident)}
    /\ UNCHANGED <<ident, INSTALLED_APPS, apps, pc, loading, classes, _apis,
                   raised, api_urls, paths, calls, h>>

NameNext == Derive

NameSpec == NameInit /\ [][NameNext]_vars

-----------------------------------------------------------------------------
(* Properties of the registry and the startup sequence (Spec) *)

GetOps == {"ApiUrls", "GetPathsAgain"}

\* C1: a class definition whose resulting key (derived from the name, given
\* as `url`, or found as the class's `url` attribute) is already in the
\* registry raises the duplicate error; one whose key is not yet present
\* succeeds and get_paths() then returns the pair of that key and the class.
C1_DuplicateRejected ==
    (h.def.valid /\ h.def.url # {}) =>
        IF h.def.present
        THEN h.def.raised = "ValueError"
        ELSE /\ h.def.raised = "none"
             /\ \E i \in DOMAIN _apis :
                    items(_apis)[i] = <<The(h.def.url), h.def.cls>>

\* C2: an entry of the registry is never changed or removed: every key of the
\* registry maps to the same handler after any step.
C2_EntriesNeverChange ==
    [][\A i \in DOMAIN _apis :
          /\ DictHas(_apis', _apis[i].key)
          /\ DictGet(_apis', _apis[i].key) = _apis[i].val]_vars

\* C3: once a statement of an api sub-unit has raised (anything, including
\* an error of an import inside the sub-unit), the startup is aborted with
\* that error and the registry stays as it was when the error was raised.
C3_FailFast ==
    h.unitRaised # "none" =>
        /\ pc = "aborted"
        /\ raised = h.unitRaised
        /\ _apis = h.apisAtRaise

\* C4: what get_paths() returns is the sequence of the registered
\* (key, handler) pairs in the order of their registration.
C4_RegistrationOrder ==
    h.lastOp \in GetOps => paths = h.regLog

\* C5: an app without an api sub-unit raises nothing out of initialize(),
\* adds nothing to the registry and leaves the loop on the next app.
C5_AbsentSkipped ==
    h.lastOp = "ImportAbsent" =>
        /\ raised = "none"
        /\ pc = "scan"
        /\ _apis = h.apisBefore
        /\ apps = Tail(h.appsBefore)

\* C5 witness: an app was skipped and a later app's sub-unit is being loaded
\* with the registry already populated.
C5_Witness ==
    /\ h.skipped > 0
    /\ pc = "load"
    /\ _apis # <<>>

\* C6: get_paths() leaves the registry as it was, and a call that follows
\* another call with no registration in between returns the same sequence.
C6_PureRead ==
    /\ h.lastOp \in GetOps => _apis = h.apisBefore
    /\ h.lastOp = "GetPathsAgain" => paths = h.prevPaths

\* C6 witness: a second call has returned a non-empty list.
C6_Witness ==
    /\ h.lastOp = "GetPathsAgain"
    /\ calls >= 2
    /\ paths # <<>>

\* C7: every key of the registry is a non-empty string.
C7_KeysNonEmpty ==
    \A i \in DOMAIN _apis : _apis[i].key # <<>>

\* C9: a registered class whose body gives `url` is registered under exactly
\* that string; one whose body gives none is registered under the segment
\* derived from its name, whatever `url` its parent has.
C9_KeyChoice ==
    (h.def.valid /\ h.def.raised = "none" /\ h.def.url # {}) =>
        /\ DictHas(_apis, The(h.def.url))
        /\ The(h.def.url) = IF h.def.dct # {} THEN The(h.def.dct)
                                               ELSE DeriveName(h.def.name)

\* C10: the registry starts empty; once urls.py has taken the paths, every
\* app left by the filter has been iterated, and the paths taken are the
\* items of the registry in every later state.
C10_PopulatedBeforePaths ==
    /\ pc = "start" => _apis = <<>>
    /\ api_urls # {} =>
          /\ h.scanned = Len(filter_apps(INSTALLED_APPS))
          /\ apps = <<>>
          /\ api_urls = {items(_apis)}

\* C10 witness: the paths were taken after two apps were iterated and hold
\* an entry.
C10_Witness ==
    /\ pc = "serving"
    /\ h.scanned >= 2
    /\ The(api_urls) # <<>>

-----------------------------------------------------------------------------
(* Property of the naming helper (NameSpec) *)

QuestionChoiceView ==
    <<"Q","u","e","s","t","i","o","n","C","h","o","i","c","e","V","i","e","w">>
OAuthTokenView == <<"O","A","u","t","h","T","o","k","e","n","V","i","e","w">>
question_choice ==
    <<"q","u","e","s","t","i","o","n","_","c","h","o","i","c","e">>
o_auth_token == <<"o","_","a","u","t","h","_","t","o","k","e","n">>

\* s with "_" put before every index in P
RECURSIVE InsertBefore(_, _, _)
InsertBefore(s, P, i) ==
    IF i > Len(s) THEN <<>>
    ELSE (IF i \in P THEN <<"_">> ELSE <<>>) \o <<s[i]>>
         \o InsertBefore(s, P, i + 1)

\* capitals followed by a lowercase letter and preceded by a character
WordStarts(s) ==
    {p \in 2..Len(s) : IsUpper(s[p]) /\ p + 1 <= Len(s) /\ IsLower(s[p + 1])}

\* capitals preceded by a lowercase letter or a digit
HumpStarts(s) ==
    {p \in 2..Len(s) : IsUpper(s[p]) /\ (IsLower(s[p - 1]) \/ IsDigit(s[p - 1]))}

\* name without one trailing "View"
Stripped(name) ==
    IF Len(name) >= 4 /\ \A k \in 1..4 : name[Len(name) - 4 + k] = ViewSuffix[k]
    THEN [i \in 1..(Len(name) - 4) |-> name[i]]
    ELSE name

Segment(name) ==
    LET t == Stripped(name)
        u == InsertBefore(t, WordStarts(t), 1)
        v == InsertBefore(u, HumpStarts(u), 1)
    IN  [i \in DOMAIN v |-> LowerChar(v[i])]

\* The three identifiers the specification pins.
ExamplesHold ==
    /\ DeriveName(LoginView) = login
    /\ DeriveName(QuestionChoiceView) = question_choice
    /\ DeriveName(OAuthTokenView) = o_auth_token

\* C8: the derived path segment of an identifier is: strip one trailing
\* "View", put "_" before each capital followed by lowercase letters and
\* preceded by a character, then "_" between a lowercase letter or digit and
\* a capital, then lowercase; LoginView gives login, QuestionChoiceView
\* gives question_choice, OAuthTokenView gives o_auth_token.
C8_DerivedSegment ==
    /\ segment # {} => The(segment) = Segment(ident)
    /\ ExamplesHold

\* C8 witness: an identifier that ends in "View" was derived and the
\* segment has a separator.
C8_Witness ==
    /\ segment # {}
    /\ removesuffix(ident, ViewSuffix) # ident
    /\ "_" \in Range(The(segment))

====
